---- MODULE Spec2Model ----
(***************************************************************************)
(* django-migrate-sql: the SQL state graph (migrate_sql/graph.py) and the  *)
(* planner MigrationAutodetector.generate_changed_sql / sort_sql_changes   *)
(* (migrate_sql/autodetector.py).                                          *)
(*                                                                         *)
(* A key stands for the pair (app_label, name); keys are numbered so that  *)
(* the order of the numbers is the order Python gives the tuples.  A       *)
(* forward statement is a positive number (the version of the definition   *)
(* it installs), a reverse statement is a negative number, and 0 is the    *)
(* empty (falsy) reverse statement.                                        *)
(***************************************************************************)
EXTENDS Integers, Sequences, FiniteSets, TLC

\* ---------------------------------------------------------------- bounds
NumKeys == 3
MaxFromDeps == 0
MaxToDeps == 2
NumGraphKeys == 2
MaxGraphDeps == 2
MaxOperations == 2
MaxEdgeDeps == 1

Keys == 1..NumKeys

\* key[0] of a key: the last key belongs to a second application
AppLabels == {"app1", "app2"}
app_label(key) == IF key < NumKeys THEN "app1" ELSE "app2"

\* ------------------------------------------------------------- constructs
NoNode == [sql |-> 0, reverse_sql |-> 0]

SqlItemNode(s, r) == [sql |-> s, reverse_sql |-> r]

FromItems == {SqlItemNode(1, 0), SqlItemNode(1, -1)}

ToItems == {SqlItemNode(1, -1), SqlItemNode(2, -1), SqlItemNode(2, 0)}

\* django.db.migrations.graph.Node(key): empty parent and child sets
Node == [parents |-> {}, children |-> {}]

\* node_map holds no entry for the key
NoEntry == [parents |-> {}, children |-> {}, key |-> 0]

\* ------------------------------------------------------------ sequences
Range(s) == {s[i] : i \in 1..Len(s)}

\* the element takes the place of the one at pos instead of moving it up
InsertAtOverwrites(s, pos, e) ==
    SubSeq(s, 1, pos - 1) \o <<e>> \o SubSeq(s, pos + 1, Len(s))

\* list.insert(pos, e), pos counted from 1
InsertAt(s, pos, e) == SubSeq(s, 1, pos - 1) \o <<e>> \o SubSeq(s, pos, Len(s))

Reverse(s) == [i \in 1..Len(s) |-> s[Len(s) + 1 - i]]

Min(S) == CHOOSE x \in S : \A y \in S : x <= y

RECURSIVE Sorted(_)
Sorted(S) == IF S = {} THEN <<>> ELSE <<Min(S)>> \o Sorted(S \ {Min(S)})

RECURSIVE OrderedSet(_)
OrderedSet(s) ==
    IF s = <<>> THEN <<>>
    ELSE LET init == OrderedSet(SubSeq(s, 1, Len(s) - 1))
             last == s[Len(s)]
         IN IF last \in Range(init) THEN init ELSE Append(init, last)

VARIABLES
    from_sql_graph,       \* self.from_sql_graph: nodes, node_map, dependencies
    to_sql_graph,         \* self.to_sql_graph
    pc,                   \* position in the planning run
    new_keys,             \* generate_changed_sql locals
    deleted_keys,
    changed_keys,
    all_keys,             \* sort_sql_changes: all_keys, fixed before the loop
    todo,                 \* keys the running for-loop over a set has yet to visit
    keys,                 \* result_keys of sort_sql_changes, then `keys`
    idx,                  \* number of keys the running pass over `keys` has visited
    latest_operations,    \* key -> id of the operation object, 0 = no entry
    created,              \* every operation object constructed, by id
    generated_operations, \* ids handed to add_operation, in call order
    raised,               \* the exception the last call ended with, NoError if none
    returned              \* the last call of check_dependency: arguments and result

vars == <<from_sql_graph, to_sql_graph, pc, new_keys, deleted_keys, changed_keys,
          all_keys, todo, keys, idx, latest_operations, created,
          generated_operations, raised, returned>>

\* ------------------------------------------------------------- exceptions
NoError == [exception |-> "None", message |-> <<>>, node |-> 0]

\* NodeNotFoundError("App %s dependencies reference nonexistent <role> node %r"
\*                   % (app_label, node), node)
NodeNotFoundError(label, role, node) ==
    [exception |-> "NodeNotFoundError", message |-> <<label, role, node>>, node |-> node]

\* check_dependency has not been called
NoCall == [operation |-> 0, dependency |-> <<>>, default |-> FALSE, result |-> FALSE]

\* the interpreter's "maximum recursion depth exceeded"
RecursionError == [exception |-> "RecursionError", message |-> <<>>, node |-> 0]

\* ----------------------------------------------------------------- graph
\* SqlStateGraph.nodes.keys()
NodeKeys(g) == {k \in Keys : g.nodes[k] # NoNode}

\* the declarations (app_label, child, parent) of a set of (child, parent) pairs,
\* in the order of the pairs; app_label is the child's (line 67)
RECURSIVE DepSeq(_)
DepSeq(D) ==
    IF D = {} THEN <<>>
    ELSE LET d == CHOOSE x \in D : \A y \in D :
                      x[1] < y[1] \/ (x[1] = y[1] /\ x[2] <= y[2])
         IN <<<<app_label(d[1]), d[1], d[2]>>>> \o DepSeq(D \ {d})

\* a graph as build_current_graph leaves it before resolve_dependencies:
\* add_node for every item, add_lazy_dependency for every declared dependency
Unresolved(items, maxdeps) ==
    {[nodes |-> n,
      node_map |-> [k \in Keys |-> IF n[k] = NoNode THEN NoEntry ELSE Node],
      dependencies |-> DepSeq(d)] :
        n \in [Keys -> items \cup {NoNode}],
        d \in {e \in SUBSET {c \in Keys \X Keys : c[1] # c[2]} :
                  Cardinality(e) <= maxdeps}}

\* index of the first declaration whose child or parent is not registered, 0 if none
FirstMissing(g) ==
    LET bad == {i \in 1..Len(g.dependencies) :
                   \/ g.dependencies[i][2] \notin NodeKeys(g)
                   \/ g.dependencies[i][3] \notin NodeKeys(g)}
    IN IF bad = {} THEN 0 ELSE Min(bad)

\* the node_map after the loop of resolve_dependencies has linked the first n declarations
Linked(g, n) ==
    [k \in Keys |->
        IF g.node_map[k] = NoEntry THEN NoEntry
        ELSE [parents |-> g.node_map[k].parents \cup
                        {g.dependencies[i][3] : i \in {j \in 1..n : g.dependencies[j][2] = k}},
              children |-> g.node_map[k].children \cup
                        {g.dependencies[i][2] : i \in {j \in 1..n : g.dependencies[j][3] = k}}]]

\* SqlStateGraph.resolve_dependencies: the graph it leaves behind
resolve_dependencies(g) ==
    LET m == FirstMissing(g)
        n == IF m = 0 THEN Len(g.dependencies) ELSE m - 1
    IN [g EXCEPT !.node_map = Linked(g, n)]

\* ----------------------------------------------- Node.ancestors/descendants
Parents(g) == [k \in Keys |-> g.node_map[k].parents]
Children(g) == [k \in Keys |-> g.node_map[k].children]

RECURSIVE Reach(_, _, _)
Reach(rel, frontier, seen) ==
    LET next == (UNION {rel[k] : k \in frontier}) \ seen
    IN IF next = {} THEN seen ELSE Reach(rel, next, seen \cup next)

\* keys reachable from k in one or more steps of rel
Closure(rel, k) == Reach(rel, {k}, {})

\* the recursion of Node.ancestors()/descendants() started at k never returns
Loops(rel, k) == \E n \in Closure(rel, k) \cup {k} : n \in Closure(rel, n)

RECURSIVE Walk(_, _)
\* deque([key]); for p in sorted(rel[key]): extendleft(reversed(p.walk())); OrderedSet
Walk(rel, k) ==
    LET ps == Sorted(rel[k])
        RECURSIVE Ext(_)
        Ext(i) == IF i = 0 THEN <<k>> ELSE Walk(rel, ps[i]) \o Ext(i - 1)
    IN OrderedSet(Ext(Len(ps)))

ancestors(g, k) == Walk(Parents(g), k)
descendants(g, k) == Walk(Children(g), k)

\* the graphs a planning run can start from: built, and resolved without an error
Resolved(items, maxdeps) ==
    {resolve_dependencies(g) : g \in {u \in Unresolved(items, maxdeps) : FirstMissing(u) = 0}}

\* -------------------------------------------------------------------- Init
\* the state after MigrationAutodetector.__init__
Init ==
    /\ from_sql_graph \in Resolved(FromItems, MaxFromDeps)
    /\ to_sql_graph \in Resolved(ToItems, MaxToDeps)
    /\ pc = "diff"
    /\ new_keys = {}
    /\ deleted_keys = {}
    /\ changed_keys = {}
    /\ all_keys = {}
    /\ todo = {}
    /\ keys = <<>>
    /\ idx = 0
    /\ latest_operations = [k \in Keys |-> 0]
    /\ created = <<>>
    /\ generated_operations = <<>>
    /\ raised = NoError
    /\ returned = NoCall

\* ----------------------------------------------------- generate_changed_sql
\* every key of both graphs counts as changed, whatever its statements
DifferAll(f, t) == NodeKeys(f) \cap NodeKeys(t)

\* lines 45-56: the keys the differ marks as changed
Differ(f, t) == {k \in NodeKeys(f) \cap NodeKeys(t) : f.nodes[k].sql # t.nodes[k].sql}

\* where the run continues once the three loops over `keys` have nothing (left) to visit
AfterRebuild(deleted) == IF deleted = {} THEN "done" ELSE "delete"

\* lines 39-58: the key sets, and the call of sort_sql_changes up to its loop
GenerateDiff ==
    /\ pc = "diff"
    /\ LET from_keys == NodeKeys(from_sql_graph)
           to_keys == NodeKeys(to_sql_graph)
           new == to_keys \ from_keys
           deleted == from_keys \ to_keys
           changed == Differ(from_sql_graph, to_sql_graph)
       IN /\ new_keys' = new
          /\ deleted_keys' = deleted
          /\ changed_keys' = changed
          /\ all_keys' = new \cup changed
          /\ todo' = IF new \cup changed = {} THEN deleted ELSE new \cup changed
          /\ pc' = IF new \cup changed = {} THEN AfterRebuild(deleted) ELSE "sort"
    /\ UNCHANGED <<from_sql_graph, to_sql_graph, keys, idx, latest_operations,
                   created, generated_operations, raised, returned>>

\* ---------------------------------------------------------- sort_sql_changes
\* next((i for i, k in enumerate(result_keys) if k in ancs), len(result_keys)), 1-based
InsertPos(result_keys, ancs) ==
    LET hit == {i \in 1..Len(result_keys) : result_keys[i] \in ancs}
    IN IF hit = {} THEN Len(result_keys) + 1 ELSE Min(hit)

RECURSIVE Cascade(_, _, _, _)
\* lines 32-35 over descs[i..]: the result list and the descendants added to changed_keys
Cascade(descs, i, pos, acc) ==
    IF i > Len(descs) THEN acc
    ELSE LET desc == descs[i]
         IN IF desc \notin all_keys /\ desc \notin Range(acc.result_keys)
            THEN Cascade(descs, i + 1, pos,
                         [result_keys |-> InsertAt(acc.result_keys, pos, desc),
                          changed |-> acc.changed \cup {desc}])
            ELSE Cascade(descs, i + 1, pos, acc)

\* the iteration with descendants()[1:] in place of descendants()[:-1]
SortIterationDropFirst(key, result_keys, changed) ==
    LET ancs == Range(ancestors(to_sql_graph, key)) \ {key}
        pos == InsertPos(result_keys, ancs)
        placed == [result_keys |-> InsertAt(result_keys, pos, key), changed |-> changed]
        full == descendants(to_sql_graph, key)
        descs == Reverse(SubSeq(full, 2, Len(full)))
    IN IF key \in changed THEN Cascade(descs, 1, pos, placed) ELSE placed

\* lines 24-35: one iteration of the loop of sort_sql_changes, for `key`
SortIteration(key, result_keys, changed) ==
    LET ancs == Range(ancestors(to_sql_graph, key)) \ {key}
        pos == InsertPos(result_keys, ancs)
        placed == [result_keys |-> InsertAt(result_keys, pos, key), changed |-> changed]
        full == descendants(to_sql_graph, key)
        descs == Reverse(SubSeq(full, 1, Len(full) - 1))
    IN IF key \in changed THEN Cascade(descs, 1, pos, placed) ELSE placed

\* the recursion of ancestors() or descendants() exceeds the interpreter's depth limit
SortOverflows(key) ==
    \/ Loops(Parents(to_sql_graph), key)
    \/ key \in changed_keys /\ Loops(Children(to_sql_graph), key)

SortStep(key) ==
    /\ pc = "sort"
    /\ key \in todo
    /\ IF SortOverflows(key)
       THEN /\ pc' = "error"
            /\ raised' = RecursionError
            /\ UNCHANGED <<todo, keys, changed_keys>>
       ELSE LET r == SortIteration(key, keys, changed_keys)
            IN /\ raised' = raised
               /\ keys' = r.result_keys
               /\ changed_keys' = r.changed
               /\ todo' = todo \ {key}
               /\ pc' = IF todo = {key} THEN "teardown" ELSE "sort"
    /\ UNCHANGED <<from_sql_graph, to_sql_graph, new_keys, deleted_keys, all_keys,
                   idx, latest_operations, created, generated_operations, returned>>

\* ------------------------------------------------------------ the three passes
\* dep = (sql_dep[0], SQL_BLOB, sql_dep[1], info) for every sql_dep
Markers(sql_deps) == {<<d, latest_operations[d]>> : d \in sql_deps}

Operation(cls, key, sql, reverse_sql, dependencies, auto_deps) ==
    [cls |-> cls, key |-> key, sql |-> sql, reverse_sql |-> reverse_sql,
     dependencies |-> dependencies, auto_deps |-> auto_deps]

\* the step with the old reverse statement on both sides
ReverseAlterSQLSameBothWays(key, old_node, auto_deps) ==
    Operation("ReverseAlterSQL", key, old_node.reverse_sql, old_node.reverse_sql,
              {}, auto_deps)

\* line 68: ReverseAlterSQL(sql_name, old_node.reverse_sql, reverse_sql=old_node.sql)
ReverseAlterSQL(key, old_node, auto_deps) ==
    Operation("ReverseAlterSQL", key, old_node.reverse_sql, old_node.sql, {}, auto_deps)

\* the teardown step is added whatever the old reverse statement
TeardownEmitsAlways(old_node) == TRUE

\* line 76: if old_node.reverse_sql
TeardownEmits(old_node) == old_node.reverse_sql # 0

\* lines 62-82, one iteration
TeardownStep ==
    /\ pc = "teardown"
    /\ LET key == keys[idx + 1]
           old_node == from_sql_graph.nodes[key]
           sql_deps == from_sql_graph.node_map[key].children \cup {key}
           emit == TeardownEmits(old_node)
           operation == ReverseAlterSQL(key, old_node,
                                        IF emit THEN Markers(sql_deps) ELSE {})
       IN IF key \notin changed_keys
          THEN UNCHANGED <<from_sql_graph, latest_operations, created,
                           generated_operations>>
          ELSE /\ from_sql_graph' =
                     [from_sql_graph EXCEPT !.node_map[key].children = sql_deps]
               /\ created' = Append(created, operation)
               /\ generated_operations' =
                     IF emit THEN Append(generated_operations, Len(created) + 1)
                     ELSE generated_operations
               /\ latest_operations' =
                     [latest_operations EXCEPT ![key] = Len(created) + 1]
    /\ idx' = IF idx + 1 = Len(keys) THEN 0 ELSE idx + 1
    /\ pc' = IF idx + 1 = Len(keys) THEN "rebuild" ELSE "teardown"
    /\ UNCHANGED <<to_sql_graph, new_keys, deleted_keys, changed_keys, all_keys,
                   todo, keys, raised, returned>>

\* AlterSQL and CreateSQL the wrong way round
OperationClsSwapped(key, changed) == IF key \in changed THEN "CreateSQL" ELSE "AlterSQL"

\* line 87: operation_cls = AlterSQL if key in changed_keys else CreateSQL
OperationCls(key, changed) == IF key \in changed THEN "AlterSQL" ELSE "CreateSQL"

\* the key itself is not added to the dependencies
RebuildSqlDepsNoSelf(parents, key) == parents

\* lines 88, 92: sql_deps = node.parents; sql_deps.add(key)
RebuildSqlDeps(parents, key) == parents \cup {key}

\* lines 84-102, one iteration
RebuildStep ==
    /\ pc = "rebuild"
    /\ LET key == keys[Len(keys) - idx]
           new_node == to_sql_graph.nodes[key]
           operation_cls == OperationCls(key, changed_keys)
           parents == to_sql_graph.node_map[key].parents
           sql_deps == RebuildSqlDeps(parents, key)
           operation == Operation(operation_cls, key, new_node.sql,
                                  new_node.reverse_sql, parents, Markers(sql_deps))
       IN /\ to_sql_graph' = [to_sql_graph EXCEPT !.node_map[key].parents = sql_deps]
          /\ created' = Append(created, operation)
          /\ generated_operations' = Append(generated_operations, Len(created) + 1)
          /\ latest_operations' = [latest_operations EXCEPT ![key] = Len(created) + 1]
    /\ idx' = IF idx + 1 = Len(keys) THEN 0 ELSE idx + 1
    /\ pc' = IF idx + 1 = Len(keys) THEN AfterRebuild(deleted_keys) ELSE "rebuild"
    /\ todo' = IF idx + 1 = Len(keys) THEN deleted_keys ELSE todo
    /\ UNCHANGED <<from_sql_graph, new_keys, deleted_keys, changed_keys, all_keys,
                   keys, raised, returned>>

\* the statements of the old node the same way round as in a create step
DeleteSQLUnswapped(key, old_node) ==
    Operation("DeleteSQL", key, old_node.sql, old_node.reverse_sql, {}, {})

\* line 109: DeleteSQL(sql_name, old_node.reverse_sql, reverse_sql=old_node.sql)
DeleteSQL(key, old_node) ==
    Operation("DeleteSQL", key, old_node.reverse_sql, old_node.sql, {}, {})

\* lines 104-110, one iteration
DeleteStep(key) ==
    /\ pc = "delete"
    /\ key \in todo
    /\ LET old_node == from_sql_graph.nodes[key]
           operation == DeleteSQL(key, old_node)
       IN /\ created' = Append(created, operation)
          /\ generated_operations' = Append(generated_operations, Len(created) + 1)
    /\ todo' = todo \ {key}
    /\ pc' = IF todo = {key} THEN "done" ELSE "delete"
    /\ UNCHANGED <<from_sql_graph, to_sql_graph, new_keys, deleted_keys, changed_keys,
                   all_keys, keys, idx, latest_operations, raised, returned>>

Next ==
    \/ GenerateDiff
    \/ \E key \in Keys : SortStep(key)
    \/ TeardownStep
    \/ RebuildStep
    \/ \E key \in Keys : DeleteStep(key)

Spec == Init /\ [][Next]_vars

\* planning runs whose from graph has dependencies of its own
EdgeInit ==
    /\ from_sql_graph \in Resolved(FromItems, MaxEdgeDeps)
    /\ to_sql_graph \in Resolved(ToItems, MaxEdgeDeps)
    /\ pc = "diff"
    /\ new_keys = {}
    /\ deleted_keys = {}
    /\ changed_keys = {}
    /\ all_keys = {}
    /\ todo = {}
    /\ keys = <<>>
    /\ idx = 0
    /\ latest_operations = [k \in Keys |-> 0]
    /\ created = <<>>
    /\ generated_operations = <<>>
    /\ raised = NoError
    /\ returned = NoCall

EdgeSpec == EdgeInit /\ [][Next]_vars

\* ================================================ SqlStateGraph operations
\* lines 10-13: SqlStateGraph()
SqlStateGraph ==
    [nodes |-> [k \in Keys |-> NoNode],
     node_map |-> [k \in Keys |-> NoEntry],
     dependencies |-> <<>>]

\* SqlStateGraph.node_map.keys()
NodeMapKeys(g) == {k \in Keys : g.node_map[k] # NoEntry}

\* lines 15-20
remove_node(g, key) ==
    IF key \in NodeKeys(g) /\ key \in NodeMapKeys(g)
    THEN [g EXCEPT !.nodes[key] = NoNode, !.node_map[key] = NoEntry]
    ELSE g

\* lines 22-25: a fresh Node replaces whatever node_map held for the key
add_node(g, key, sql_item) ==
    [g EXCEPT !.node_map[key] = Node, !.nodes[key] = sql_item]

\* lines 27-28
add_lazy_dependency(g, label, child, parent) ==
    [g EXCEPT !.dependencies = Append(@, <<label, child, parent>>)]

\* lines 30-36
remove_lazy_dependencies(g, label, child) ==
    LET Kept(dep) == ~(dep[1] = label /\ dep[2] = child)
    IN [g EXCEPT !.dependencies = SelectSeq(@, Kept)]

\* the error for a missing parent names the child key
ResolveRaisesNamesChild(g) ==
    LET m == FirstMissing(g)
        dep == g.dependencies[m]
    IN IF m = 0 THEN NoError ELSE NodeNotFoundError(dep[1], "child", dep[2])

\* lines 39-49: what resolve_dependencies raises, NoError if it returns
ResolveRaises(g) ==
    LET m == FirstMissing(g)
        dep == g.dependencies[m]
    IN IF m = 0 THEN NoError
       ELSE IF dep[2] \notin NodeKeys(g)
            THEN NodeNotFoundError(dep[1], "child", dep[2])
            ELSE NodeNotFoundError(dep[1], "parent", dep[3])

\* the calls a caller makes on one graph, here self.from_sql_graph, in any order
GraphInit ==
    /\ from_sql_graph = SqlStateGraph
    /\ to_sql_graph = SqlStateGraph
    /\ pc = "graph"
    /\ new_keys = {}
    /\ deleted_keys = {}
    /\ changed_keys = {}
    /\ all_keys = {}
    /\ todo = {}
    /\ keys = <<>>
    /\ idx = 0
    /\ latest_operations = [k \in Keys |-> 0]
    /\ created = <<>>
    /\ generated_operations = <<>>
    /\ raised = NoError
    /\ returned = NoCall

GraphCall(g, exc) ==
    /\ pc = "graph"
    /\ from_sql_graph' = g
    /\ raised' = exc
    /\ UNCHANGED <<to_sql_graph, pc, new_keys, deleted_keys, changed_keys, all_keys,
                   todo, keys, idx, latest_operations, created, generated_operations,
                   returned>>

AddNode(key, sql_item) == GraphCall(add_node(from_sql_graph, key, sql_item), NoError)

RemoveNode(key) == GraphCall(remove_node(from_sql_graph, key), NoError)

AddLazyDependency(label, child, parent) ==
    /\ Len(from_sql_graph.dependencies) < MaxGraphDeps
    /\ GraphCall(add_lazy_dependency(from_sql_graph, label, child, parent), NoError)

RemoveLazyDependencies(label, child) ==
    GraphCall(remove_lazy_dependencies(from_sql_graph, label, child), NoError)

ResolveDependencies ==
    GraphCall(resolve_dependencies(from_sql_graph), ResolveRaises(from_sql_graph))

\* the keys the calls are made with
GraphKeys == 1..NumGraphKeys

GraphNext ==
    \/ \E key \in GraphKeys, sql_item \in ToItems : AddNode(key, sql_item)
    \/ \E key \in GraphKeys : RemoveNode(key)
    \/ \E label \in AppLabels, child, parent \in GraphKeys :
          AddLazyDependency(label, child, parent)
    \/ \E label \in AppLabels, child \in GraphKeys : RemoveLazyDependencies(label, child)
    \/ ResolveDependencies

GraphSpec == GraphInit /\ [][GraphNext]_vars

\* ============================================================ check_dependency
\* an operation object is its position in `created`: == on operations is identity
Operations == 1..Len(created)

\* dependency tuples (app_label, kind, name, info): kind is SQL_BLOB for the markers
\* of lines 74 and 95, a model name for the host's own dependencies; info is an
\* operation, 0 (None) or, for the host's kinds, any flag
Dependencies ==
    {<<app_label(k), kind, k, info>> :
        k \in Keys, kind \in {"SQL_BLOB", "model"}, info \in 0..MaxOperations}

\* == of the operations' contents instead of the objects
check_dependencyByContents(operation, dependency, default) ==
    IF dependency[2] = "SQL_BLOB"
    THEN dependency[4] \in Operations /\ created[dependency[4]] = created[operation]
    ELSE default

\* lines 112-115; default is what super().check_dependency(operation, dependency) returns
check_dependency(operation, dependency, default) ==
    IF dependency[2] = "SQL_BLOB" THEN dependency[4] = operation ELSE default

\* the operation objects of a plan the host checks dependencies against
CheckInit ==
    /\ created \in [1..MaxOperations ->
                       {Operation("CreateSQL", k, 1, -1, {}, {}) : k \in Keys}]
    /\ pc = "check"
    /\ from_sql_graph = SqlStateGraph
    /\ to_sql_graph = SqlStateGraph
    /\ new_keys = {}
    /\ deleted_keys = {}
    /\ changed_keys = {}
    /\ all_keys = {}
    /\ todo = {}
    /\ keys = <<>>
    /\ idx = 0
    /\ latest_operations = [k \in Keys |-> 0]
    /\ generated_operations = <<>>
    /\ raised = NoError
    /\ returned = NoCall

CheckDependency(operation, dependency, default) ==
    /\ pc = "check"
    /\ returned' = [operation |-> operation, dependency |-> dependency,
                    default |-> default,
                    result |-> check_dependency(operation, dependency, default)]
    /\ UNCHANGED <<from_sql_graph, to_sql_graph, pc, new_keys, deleted_keys,
                   changed_keys, all_keys, todo, keys, idx, latest_operations,
                   created, generated_operations, raised>>

CheckNext ==
    \E operation \in Operations, dependency \in Dependencies, default \in BOOLEAN :
        CheckDependency(operation, dependency, default)

CheckSpec == CheckInit /\ [][CheckNext]_vars

\* ================================================================ properties
\* The graphs are read through their declarations, which planning never touches.
DeclParents(g, k) == {d[3] : d \in {e \in Range(g.dependencies) : e[2] = k}}
DeclChildren(g, k) == {d[2] : d \in {e \in Range(g.dependencies) : e[3] = k}}

RECURSIVE Up(_, _, _)
Up(g, S, n) ==
    IF n = 0 THEN S ELSE Up(g, S \cup UNION {DeclParents(g, k) : k \in S}, n - 1)

RECURSIVE Down(_, _, _)
Down(g, S, n) ==
    IF n = 0 THEN S ELSE Down(g, S \cup UNION {DeclChildren(g, k) : k \in S}, n - 1)

\* the transitive ancestors and descendants of k, k itself excluded unless on a cycle
DeclAncestors(g, k) == Up(g, DeclParents(g, k), NumKeys)
DeclDescendants(g, k) == Down(g, DeclChildren(g, k), NumKeys)

\* sort_sql_changes has returned
SortReturned == pc \in {"teardown", "rebuild", "delete", "done"}
TeardownDone == pc \in {"rebuild", "delete", "done"}
RebuildDone == pc \in {"delete", "done"} /\ keys # <<>>

\* the keys the differ hands to sort_sql_changes as changed
InitiallyChanged == Differ(from_sql_graph, to_sql_graph)

\* emission positions of the steps of class cls for key k
Steps(cls, k) ==
    {i \in 1..Len(generated_operations) :
        /\ created[generated_operations[i]].cls = cls
        /\ created[generated_operations[i]].key = k}

Step(i) == created[generated_operations[i]]

RebuildSteps(k) == Steps("AlterSQL", k) \cup Steps("CreateSQL", k)

PosIn(s, k) == CHOOSE i \in 1..Len(s) : s[i] = k

\* C1: in the sequence sort_sql_changes returns, every key stands before each of
\* its transitive ancestors in the to graph that is in the sequence too.
C1_KeyBeforeItsAncestors ==
    SortReturned =>
        \A i, j \in 1..Len(keys) :
            keys[j] \in DeclAncestors(to_sql_graph, keys[i]) => i < j

\* C2: when a direct parent A of B in the to graph and B both get a Create/Alter
\* step, A's step is emitted before B's and B's step carries a marker for A that
\* references A's rebuild step.
C2_ParentRebuiltFirstAndReferenced ==
    RebuildDone =>
        \A a, b \in Range(keys) :
            a \in DeclParents(to_sql_graph, b) =>
                \E i \in RebuildSteps(a) : \E j \in RebuildSteps(b) :
                    /\ i < j
                    /\ <<a, generated_operations[i]>> \in Step(j).auto_deps

\* C3: once sort_sql_changes has returned, every transitive descendant in the to
\* graph of a key of the final changed-key set is in the final change set and in
\* the returned order.
C3_CascadingCompleteness ==
    SortReturned =>
        \A k \in changed_keys : \A d \in DeclDescendants(to_sql_graph, k) :
            /\ d \in changed_keys \cup new_keys
            /\ d \in Range(keys)

\* a key whose own payload is unchanged was pulled in behind a changed ancestor
C3_Witness ==
    /\ SortReturned
    /\ \E k \in InitiallyChanged : \E d \in DeclDescendants(to_sql_graph, k) :
          /\ d \in changed_keys \ InitiallyChanged
          /\ from_sql_graph.nodes[d] = to_sql_graph.nodes[d]
          /\ d \in Range(keys)

\* the state generate_changed_sql is in when line 56 has run for the last key
\* and sort_sql_changes has visited none
Diffed == pc # "diff" /\ keys = <<>>

Both == NodeKeys(from_sql_graph) \cap NodeKeys(to_sql_graph)

\* C4: the differ puts a key in changed_keys exactly when both graphs hold it
\* and the two constructs differ in the forward or in the reverse statement; a
\* key of both graphs with equal statements is in none of the three sets.
C4_ChangedIffPayloadsDiffer ==
    Diffed =>
        /\ changed_keys = {k \in Both : from_sql_graph.nodes[k] # to_sql_graph.nodes[k]}
        /\ \A k \in Both :
              from_sql_graph.nodes[k] = to_sql_graph.nodes[k] =>
                  k \notin new_keys \cup deleted_keys \cup changed_keys

\* C5: snapshots with the same keys and, key by key, the same forward and
\* reverse statements get no step at all.
C5_IdenticalSnapshotsEmptyPlan ==
    from_sql_graph.nodes = to_sql_graph.nodes =>
        generated_operations = <<>> /\ created = <<>>

\* a run over two equal, non-empty snapshots, the to graph with dependencies, has ended
C5_Witness ==
    /\ pc = "done"
    /\ from_sql_graph.nodes = to_sql_graph.nodes
    /\ Cardinality(Both) >= 2
    /\ to_sql_graph.dependencies # <<>>

\* C6: a key of the from graph that the to graph lacks gets exactly one Delete
\* step, old reverse statement forward and old forward statement in reverse, and
\* never a Create, Alter or ReverseAlter step.
C6_DeletionCompleteness ==
    \A k \in NodeKeys(from_sql_graph) \ NodeKeys(to_sql_graph) :
        /\ RebuildSteps(k) \cup Steps("ReverseAlterSQL", k) = {}
        /\ \A i \in Steps("DeleteSQL", k) :
              /\ Step(i).sql = from_sql_graph.nodes[k].reverse_sql
              /\ Step(i).reverse_sql = from_sql_graph.nodes[k].sql
        /\ Cardinality(Steps("DeleteSQL", k)) <= 1
        /\ pc = "done" => Cardinality(Steps("DeleteSQL", k)) = 1

\* two keys were removed next to a changed one, and the run has ended
C6_Witness ==
    /\ pc = "done"
    /\ Cardinality(deleted_keys) >= 2
    /\ changed_keys # {}
    /\ \A k \in deleted_keys : Steps("DeleteSQL", k) # {}

\* ------------------------------------------------------------ the database
\* What a statement does to the definition the database holds for its key: a
\* forward statement installs its version, a reverse statement drops the
\* definition, the empty statement does nothing.  0 stands for no definition.
Exec(db, key, statement) ==
    IF statement = 0 THEN db
    ELSE IF statement > 0 THEN [db EXCEPT ![key] = statement]
    ELSE [db EXCEPT ![key] = 0]

RECURSIVE ApplyForwards(_, _)
\* the forward statements of the steps 1..n, in emission order
ApplyForwards(db, n) ==
    IF n = 0 THEN db
    ELSE Exec(ApplyForwards(db, n - 1), Step(n).key, Step(n).sql)

RECURSIVE ApplyBackwards(_, _)
\* the reverse statements of the steps, from the last one down to step n
ApplyBackwards(db, n) ==
    IF n > Len(generated_operations) THEN db
    ELSE Exec(ApplyBackwards(db, n + 1), Step(n).key, Step(n).reverse_sql)

\* the database that holds the definitions of the from snapshot
FromDb == [k \in Keys |-> from_sql_graph.nodes[k].sql]

RoundTrip == ApplyBackwards(ApplyForwards(FromDb, Len(generated_operations)), 1)

\* C7 as claimed: the forward statements of all steps and then their reverse
\* statements in reverse order restore, for every key, the definition it had in
\* the from snapshot, whatever the old reverse statement of a changed key.
C7_RoundTripRestoresEveryKey ==
    pc = "done" => \A k \in NodeKeys(from_sql_graph) : RoundTrip[k] = FromDb[k]

\* the keys whose steps cannot be undone: changed ones (cascaded ones included)
\* without an old reverse statement, added ones without a new reverse statement
NotUndoable ==
    {k \in changed_keys : from_sql_graph.nodes[k].reverse_sql = 0}
        \cup {k \in new_keys : to_sql_graph.nodes[k].reverse_sql = 0}

\* C7 amended: the round trip restores the definition of every key (none, for
\* an added key), save the changed keys whose old reverse statement is empty
\* and the added keys whose new reverse statement is empty.
C7_RoundTripRestoresUndoableKeys ==
    pc = "done" => \A k \in Keys \ NotUndoable : RoundTrip[k] = FromDb[k]

\* a changed key and a cascaded key were torn down and rebuilt, a key was added
\* and a key removed, and every definition is back
C7_Witness ==
    /\ pc = "done"
    /\ InitiallyChanged # {}
    /\ changed_keys # InitiallyChanged \/ new_keys # {} \/ deleted_keys # {}
    /\ NotUndoable = {}
    /\ Len(generated_operations) >= 3
    /\ RoundTrip = FromDb
    /\ ApplyForwards(FromDb, Len(generated_operations)) # FromDb

\* C8: a changed key whose old reverse statement is not empty gets its
\* ReverseAlter step before its Alter step, and the Alter step carries a marker
\* for the key itself that references that ReverseAlter step.
C8_ReverseAlterBeforeAlter ==
    RebuildDone =>
        \A k \in changed_keys :
            from_sql_graph.nodes[k].reverse_sql # 0 =>
                \E i \in Steps("ReverseAlterSQL", k) : \E j \in Steps("AlterSQL", k) :
                    /\ i < j
                    /\ <<k, generated_operations[i]>> \in Step(j).auto_deps

\* a changed key with parents in the to graph got both steps
C8_Witness ==
    /\ RebuildDone
    /\ \E k \in InitiallyChanged :
          /\ from_sql_graph.nodes[k].reverse_sql # 0
          /\ DeclParents(to_sql_graph, k) # {}
          /\ Steps("ReverseAlterSQL", k) # {}
          /\ Steps("AlterSQL", k) # {}

\* C9: the teardown pass emits a ReverseAlter step for a key exactly when the
\* key is in the final changed_keys and its reverse statement in the from graph
\* is not empty; the step runs the old reverse statement forward and the old
\* forward statement in reverse.  An added key gets none.
C9_ReverseAlterExactlyForUndoableChanged ==
    /\ TeardownDone =>
          \A k \in Keys :
              Steps("ReverseAlterSQL", k) # {}
                  <=> (k \in changed_keys /\ from_sql_graph.nodes[k].reverse_sql # 0)
    /\ \A k \in Keys :
          /\ Cardinality(Steps("ReverseAlterSQL", k)) <= 1
          /\ \A i \in Steps("ReverseAlterSQL", k) :
                /\ Step(i).sql = from_sql_graph.nodes[k].reverse_sql
                /\ Step(i).reverse_sql = from_sql_graph.nodes[k].sql
                /\ k \notin new_keys

\* the teardown pass ran over an added key, a changed key with an empty old
\* reverse statement and a changed key with a reverse statement
C9_Witness ==
    /\ TeardownDone
    /\ new_keys # {}
    /\ \E k \in changed_keys :
          from_sql_graph.nodes[k].reverse_sql = 0 /\ Steps("ReverseAlterSQL", k) = {}
    /\ \E k \in changed_keys :
          /\ from_sql_graph.nodes[k].reverse_sql # 0
          /\ from_sql_graph.nodes[k].reverse_sql # to_sql_graph.nodes[k].reverse_sql
          /\ Steps("ReverseAlterSQL", k) # {}

\* C10: every key of the plan order gets exactly one rebuild step, an Alter step
\* if it is in the final changed_keys (cascaded keys included) and a Create step
\* if it was only added, with the forward and the reverse statement of the to
\* graph.
C10_OneRebuildStepPerKey ==
    /\ RebuildDone =>
          \A k \in Range(keys) : Cardinality(RebuildSteps(k)) = 1
    /\ \A k \in Keys :
          /\ Cardinality(RebuildSteps(k)) <= 1
          /\ RebuildSteps(k) # {} => k \in Range(keys)
          /\ Steps("AlterSQL", k) # {} => k \in changed_keys
          /\ Steps("CreateSQL", k) # {} => k \in new_keys \ changed_keys
          /\ \A i \in RebuildSteps(k) :
                /\ Step(i).sql = to_sql_graph.nodes[k].sql
                /\ Step(i).reverse_sql = to_sql_graph.nodes[k].reverse_sql

\* the rebuild pass ran over an added key, a changed key and a cascaded key
C10_Witness ==
    /\ RebuildDone
    /\ \E k \in new_keys : Steps("CreateSQL", k) # {}
    /\ \E k \in InitiallyChanged : Steps("AlterSQL", k) # {}
    /\ \E k \in changed_keys \ InitiallyChanged : Steps("AlterSQL", k) # {}

\* ------------------------------------------------------------------- C11
RECURSIVE SortInOrder(_, _, _)
\* the loop of sort_sql_changes run over the keys in the given order
SortInOrder(order, i, acc) ==
    IF i > Len(order) THEN acc
    ELSE SortInOrder(order, i + 1,
                     SortIteration(order[i], acc.result_keys, acc.changed))

\* what sort_sql_changes returns when the set all_keys is iterated in ascending order
AscendingSort ==
    SortInOrder(Sorted(all_keys), 1,
                [result_keys |-> <<>>, changed |-> InitiallyChanged]).result_keys

\* sort_sql_changes has just returned: no pass has touched a graph yet
SortJustReturned == pc = "teardown" /\ idx = 0

\* C11: planning the same (from, to) pair gives the same plan whatever the order
\* in which the key sets are iterated: the order sort_sql_changes returns, which
\* fixes the emission order of the teardown and rebuild steps, is the one the
\* ascending iteration of the same sets gives.
C11_PlanIndependentOfIterationOrder ==
    SortJustReturned => keys = AscendingSort

\* ------------------------------------------------------------------- C12
\* C12: add_node called with a key that is already registered fails with a
\* DuplicateKey error and leaves the construct map, the node map and the edges
\* as they were.
C12_AddNodeRejectsRegisteredKey ==
    [][\A key \in GraphKeys, sql_item \in ToItems :
          (key \in NodeKeys(from_sql_graph) /\ AddNode(key, sql_item)) =>
              /\ raised'.exception = "DuplicateKey"
              /\ from_sql_graph' = from_sql_graph]_vars

\* ------------------------------------------------------------------- C13
\* the declarations of g with a child or a parent that is not registered
MissingTarget(g) ==
    {dep \in Range(g.dependencies) :
        dep[2] \notin NodeKeys(g) \/ dep[3] \notin NodeKeys(g)}

\* C13: resolve_dependencies fails with a NodeNotFoundError that names an absent
\* key and the app label of the declaration that asks for it whenever some
\* declaration has an unregistered child or parent; otherwise it returns and every
\* declaration's parent is in the child's parent set and its child in the
\* parent's child set.
C13_ResolveFailsOrLinks ==
    [][ResolveDependencies =>
          IF MissingTarget(from_sql_graph) # {}
          THEN /\ raised'.exception = "NodeNotFoundError"
               /\ \E dep \in MissingTarget(from_sql_graph) :
                     /\ raised'.node \in {dep[2], dep[3]} \ NodeKeys(from_sql_graph)
                     /\ raised'.message[1] = dep[1]
                     /\ raised'.message[3] = raised'.node
          ELSE /\ raised' = NoError
               /\ \A dep \in Range(from_sql_graph.dependencies) :
                     /\ dep[3] \in from_sql_graph'.node_map[dep[2]].parents
                     /\ dep[2] \in from_sql_graph'.node_map[dep[3]].children]_vars

\* resolve_dependencies has just failed on a declaration whose child is registered
\* and whose parent is not, after it linked an earlier declaration
C13_Witness ==
    /\ pc = "graph"
    /\ raised.exception = "NodeNotFoundError"
    /\ raised.node \notin NodeKeys(from_sql_graph)
    /\ \E dep \in MissingTarget(from_sql_graph) :
          /\ dep[2] \in NodeKeys(from_sql_graph)
          /\ raised.message = <<dep[1], "parent", dep[3]>>
    /\ \E dep \in Range(from_sql_graph.dependencies) \ MissingTarget(from_sql_graph) :
          dep[3] \in from_sql_graph.node_map[dep[2]].parents

\* ------------------------------------------------------------------- C14
\* the dependency declarations of the to graph form a cycle
ToCyclic == \E k \in Keys : k \in DeclAncestors(to_sql_graph, k)

\* C14: when the declarations of the to graph form a cycle, planning aborts with
\* a CyclicDependency error: no step is ever emitted, the run does not complete,
\* and the error it stops with is CyclicDependency.
C14_CycleAbortsWithCyclicDependency ==
    ToCyclic =>
        /\ generated_operations = <<>>
        /\ pc # "done"
        /\ pc = "error" => raised.exception = "CyclicDependency"

\* ------------------------------------------------------------------- C15
\* C15: no step of plan generation (the differ, sort_sql_changes, the teardown,
\* rebuild and delete passes) changes the from graph or the to graph: construct
\* map, parent sets and child sets stay as they were.
C15_PlanningLeavesGraphsUnchanged ==
    [][/\ from_sql_graph' = from_sql_graph
       /\ to_sql_graph' = to_sql_graph]_vars

\* ------------------------------------------------------------------- C16
\* C16: check_dependency on a marker of the SQL_BLOB kind returns true for an
\* operation only when that operation is the very object the marker references
\* (never for a marker that references None), and on a dependency of any other
\* kind it returns what the host's check_dependency returns.
C16_MarkerSatisfiedOnlyByReferencedStep ==
    returned # NoCall =>
        IF returned.dependency[2] = "SQL_BLOB"
        THEN returned.result =>
                /\ returned.dependency[4] # 0
                /\ returned.dependency[4] = returned.operation
        ELSE returned.result = returned.default

\* a marker was found satisfied by the operation it references while the plan
\* holds a second operation with the same contents
C16_Witness ==
    /\ returned # NoCall
    /\ returned.dependency[2] = "SQL_BLOB"
    /\ returned.result
    /\ \E o \in Operations :
          o # returned.operation /\ created[o] = created[returned.operation]

\* ------------------------------------------------------------------- C17
\* C17: the sequence sort_sql_changes returns holds every key of new_keys and of
\* the grown changed_keys exactly once, and no other key.
C17_ReturnedKeysAreAddedAndChangedOnce ==
    SortReturned =>
        /\ Range(keys) = new_keys \cup changed_keys
        /\ \A i, j \in 1..Len(keys) : keys[i] = keys[j] => i = j

\* the returned sequence holds a key the cascade pulled in, which two changed keys
\* both have as a descendant
C17_Witness ==
    /\ SortReturned
    /\ Len(keys) = NumKeys
    /\ \E d \in changed_keys \ InitiallyChanged :
          \E a, b \in InitiallyChanged :
              /\ a # b
              /\ d \in DeclDescendants(to_sql_graph, a)
              /\ d \in DeclDescendants(to_sql_graph, b)

\* ------------------------------------------------------------------- C18
\* the from graph was built by add_node calls in ascending order of the keys
InsertedBefore(a, b) == a < b

\* every Delete step comes after every step of another class
DeletesLast ==
    \A i, j \in 1..Len(generated_operations) :
        Step(i).cls = "DeleteSQL" /\ Step(j).cls # "DeleteSQL" => j < i

\* C18: Delete steps are emitted after all teardown and rebuild steps, and among
\* themselves in the order in which their keys were inserted into the from graph.
C18_DeletesLastInInsertionOrder ==
    /\ DeletesLast
    /\ \A i, j \in 1..Len(generated_operations) :
          /\ Step(i).cls = "DeleteSQL"
          /\ Step(j).cls = "DeleteSQL"
          /\ InsertedBefore(Step(i).key, Step(j).key)
          => i < j

\* ------------------------------------------------------------------- C19
\* C19: after any sequence of add_node, remove_node, add_lazy_dependency,
\* remove_lazy_dependencies and resolve_dependencies calls on one graph, nodes and
\* node_map have the same keys, every key in a node's parent or child set is
\* registered, and b is a child of a exactly when a is a parent of b.
C19_EdgeStructureConsistent ==
    pc = "graph" /\ raised = NoError =>
        /\ NodeKeys(from_sql_graph) = NodeMapKeys(from_sql_graph)
        /\ \A a \in NodeMapKeys(from_sql_graph) :
              /\ from_sql_graph.node_map[a].parents \subseteq NodeKeys(from_sql_graph)
              /\ from_sql_graph.node_map[a].children \subseteq NodeKeys(from_sql_graph)
        /\ \A a, b \in NodeMapKeys(from_sql_graph) :
              b \in from_sql_graph.node_map[a].children
                  <=> a \in from_sql_graph.node_map[b].parents

\* ------------------------------------------------------------------- C20
\* C20: once the teardown pass is over, for changed keys c and k with c a direct
\* child of k in the from graph and both old reverse statements non-empty, the
\* ReverseAlter step of c is emitted before the ReverseAlter step of k, and k's
\* step carries a marker for c that references c's ReverseAlter step; whatever
\* the dependencies of the to graph.
C20_ChildTornDownFirstAndReferenced ==
    TeardownDone =>
        \A c, k \in changed_keys :
            /\ c \in DeclChildren(from_sql_graph, k)
            /\ from_sql_graph.nodes[c].reverse_sql # 0
            /\ from_sql_graph.nodes[k].reverse_sql # 0
            => \E i \in Steps("ReverseAlterSQL", c) :
                   \E j \in Steps("ReverseAlterSQL", k) :
                       /\ i < j
                       /\ <<c, generated_operations[i]>> \in Step(j).auto_deps

\* ------------------------------------------------------------------- C21
\* C21: in the plan emitted so far, every marker of every step references either
\* no operation or an operation that add_operation was given earlier than the
\* step that carries the marker.
C21_MarkersReferenceEarlierEmittedSteps ==
    \A j \in 1..Len(generated_operations) :
        \A dep \in Step(j).auto_deps :
            \/ dep[2] = 0
            \/ \E i \in 1..(j - 1) : generated_operations[i] = dep[2]
====
